---------------------------- MODULE Spec2Model ----------------------------
(***************************************************************************)
(* Model of the waveform resampling and caching layer (WaveformVis) and of *)
(* its resampler worker.                                                   *)
(*                                                                         *)
(* Units.  Zoom factors are in hundredths (1.00 is 100, the 0.05 trigger   *)
(* is 5).  A time instant is an exact rational [n |-> numerator,           *)
(* d |-> denominator] in seconds, and so is the window size, so that       *)
(* round(t * sampleRate) and the window bound i + windowSize are computed  *)
(* as the code computes them on numbers, without floating point error.     *)
(* An optional value (undefined in the source) is <<>> and a present value *)
(* v is <<v>>.                                                             *)
(*                                                                         *)
(* The module also models the Timeline (interaction state, tracks, layers  *)
(* and groups), the ContextEditionState and the BreakpointBehavior.  Each  *)
(* object has its own variables and its own specification; the variables   *)
(* of the other objects stay as constructed.                               *)
(***************************************************************************)
EXTENDS Integers, Sequences, FiniteSets, Bags, TLC

VARIABLES
  useWorker,              \* param 'useWorker'
  data,                   \* the sample buffer handed to the layer
  dataDetached,           \* the buffer was transferred to the worker
  sampleRate,             \* accessor sampleRate
  duration,               \* accessor duration
  yDomain,                \* yScale.domain()
  xScale,                 \* base.xScale: [domain, range]
  loaded,                 \* onload has run
  currentZoomFactor,
  currentDragDeltaX,
  xxScale,                \* optional [domain, range]
  cache,                  \* optional down sampled view
  isProcessing,           \* __isProcessing: "undefined" or "false"
  currentWorkerCallTime,  \* optional __currentWorkerCallTime
  now,                    \* what new Date().getTime() returns
  toWorker,               \* messages posted to the worker, in order
  workerBuffer,           \* optional buffer held by the worker
  fromWorker,             \* bag of responses posted by the worker, not yet received
  dispatched,             \* history: time of every downSample request posted
  applied,                \* history: time of every response passed to setDownSample
  cachePlan,              \* history: optional plan the cached view was computed from
  lastOp                  \* history: what the last handler did

\* Timeline
VARIABLES
  state,                  \* optional _state
  tracks,                 \* _tracks, in insertion order
  trackById,              \* _trackById: trackId -> track
  trackLayers,            \* track -> track.layers, for every Track constructed
  groupedLayers,          \* _groupedLayers: groupId -> layers, in insertion order
  timelineOp              \* history: what the last Timeline method did

\* ContextEditionState
VARIABLES
  mouseDown,              \* "undefined", "true" or "false"
  currentTarget,          \* "undefined", "null" or an element
  currentLayer,           \* "undefined", "null" or a layer
  hitSinceUp,             \* history: layers hit by a mousedown since the last mouseup
  editionOp               \* history: what the last handler of the state did

\* BreakpointBehavior
VARIABLES
  breakpoints,            \* _layer.data: the breakpoints, [cx, cy] each
  breakpointOp            \* history: what the last edit did

layerVars ==
  <<useWorker, data, dataDetached, sampleRate, duration, yDomain, xScale,
    loaded, currentZoomFactor, currentDragDeltaX, xxScale, cache,
    isProcessing, currentWorkerCallTime, now, toWorker, workerBuffer,
    fromWorker, dispatched, applied, cachePlan, lastOp>>

timelineVars ==
  <<state, tracks, trackById, trackLayers, groupedLayers, timelineOp>>

editionVars ==
  <<mouseDown, currentTarget, currentLayer, hitSinceUp, editionOp>>

breakpointVars == <<breakpoints, breakpointOp>>

vars == <<layerVars, timelineVars, editionVars, breakpointVars>>

-----------------------------------------------------------------------------
(* Bounds of the exploration *)

\* the number of downSample requests a behaviour posts to the worker
MaxDispatch == 2

\* the number of Track objects a behaviour constructs
MaxTracks == 2

\* the number of layers a behaviour puts in one group
MaxGroup == 2

(* Program constants *)

triggerUpdateZoomDelta == 5
triggerUpdateDragDelta == 4
InitialZoomFactor == 100
InitialDragDeltaX == 0

(* Input sets *)

Buffers == { <<-1, 0, 1>> }
SampleRates == {2}
Durations == {2}
YDomains == { <<0, 4>> }
XDomains == { <<0, 1>>, <<1, 3>> }
Factors == {100, 103, 105}
Drags == {0, 4}

(* Input sets of the Timeline *)

States == {"s1", "s2"}
Events == {"mousedown", "mousemove"}
TrackIds == {"a", "b"}
Layers == {"l1", "l2", "l3"}
GroupIds == {"default", "g"}

(* Input sets of the ContextEditionState: the elements of each layer, the
   elements an event can have as target, and the event's dx and dy *)

ElementsOf == [layer \in Layers |-> IF layer = "l1" THEN {"e1"}
                                    ELSE IF layer = "l2" THEN {"e2"}
                                    ELSE {"e3"}]
Targets == {"e1", "e2", "bg"}
Moves == {-1, 0, 1}

(* Input sets of the BreakpointBehavior: the rendering context (its height
   and the pixels per unit of its two linear scales), the data of the
   layer, the pixel columns of the layer, and the event's dx and dy *)

RenderingContexts == { [height |-> 4, xUnit |-> 2, yUnit |-> 2] }
BreakpointData ==
  { << [cx |-> 0, cy |-> 0], [cx |-> 2, cy |-> 1] >>,
    << [cx |-> 0, cy |-> 0], [cx |-> 2, cy |-> 2], [cx |-> 4, cy |-> 1] >> }
PixelColumns == 0..6
Dxs == {-4, -2, 2, 4}
Dys == {-6, -2, 2}

(* Input sets of the inline exploration *)

InlineBuffers == { <<>>, <<3>>, <<1, -1>>, <<-1, 0, 1>>, <<2, 2, -2, 0>> }
InlineSampleRates == {1, 2}
InlineYDomains == { <<-1, 1>>, <<0, 4>> }
InlineXDomains == { <<0, 1>>, <<1, 3>>, <<-1, 1>>, <<0, 0>>, <<2, 4>> }
InlineWidths == {0, 1, 2, 3}

None == <<>>
Some(v) == <<v>>

Abs(x) == IF x < 0 THEN -x ELSE x


-----------------------------------------------------------------------------
(* Scales and the extraction plan *)

\* Math.round of the rational n / d (d > 0): halves round up
Round(n, d) == (2 * n + d) \div (2 * d)

\* base.xScale.range()[1] - base.xScale.range()[0]
Width(xs) == xs.range[2] - xs.range[1]

\* base.xScale.invert(pixel), the time at the start of a pixel column
Invert(xs, pixel) ==
  [n |-> xs.domain[1] * Width(xs) + pixel * (xs.domain[2] - xs.domain[1]),
   d |-> Width(xs)]

\* the loop that fills extractAtTimes, one instant per pixel in [0, width)
RECURSIVE ExtractAtTimesFrom(_, _)
ExtractAtTimesFrom(xs, pixel) ==
  IF pixel < Width(xs)
    THEN <<Invert(xs, pixel)>> \o ExtractAtTimesFrom(xs, pixel + 1)
    ELSE <<>>

ExtractAtTimes(xs) == ExtractAtTimesFrom(xs, 0)

\* getSamplesPerPixel: (timelineDuration * sampleRate) / timelineWidth
GetSamplesPerPixel(xs, sr) ==
  [n |-> (xs.domain[2] - xs.domain[1]) * sr, d |-> Width(xs)]

\* center of the y domain; the model keeps yDomain sums even
DefaultValue(yd) == (yd[1] + yd[2]) \div 2

\* data instanceof ArrayBuffer ? new Float32Array(data) : data
\* (a transferred ArrayBuffer is detached and has no samples left)
BufferOf(d, detached) == IF detached THEN <<>> ELSE d

-----------------------------------------------------------------------------
(* minMax: the windowed (min, max) reduction *)

Min2(a, b) == IF a < b THEN a ELSE b
Max2(a, b) == IF a > b THEN a ELSE b

\* a window that also takes the sample at i + windowSize
BeforeWindowEndInclusive(i, j, ws) == j * ws.d <= i * ws.d + ws.n

\* sample index j (0-based) lies before the end i + windowSize of the window
BeforeWindowEnd(i, j, ws) == j * ws.d < i * ws.d + ws.n

\* scan the samples j, j+1, ... of the window that starts at index i
RECURSIVE ScanWindow(_, _, _, _, _)
ScanWindow(buffer, i, j, ws, acc) ==
  IF j >= Len(buffer) \/ ~BeforeWindowEnd(i, j, ws)
    THEN acc
    ELSE LET s == buffer[j + 1]
             next == IF acc = None
                       THEN Some(<<s, s>>)
                       ELSE Some(<<Min2(acc[1][1], s), Max2(acc[1][2], s)>>)
         IN ScanWindow(buffer, i, j + 1, ws, next)

MinMaxAt(buffer, t, sr, ws, defaultValue) ==
  LET i == Round(t.n * sr, t.d)
      acc == ScanWindow(buffer, i, IF i < 0 THEN 0 ELSE i, ws, None)
  IN IF acc = None THEN <<defaultValue, defaultValue>> ELSE acc[1]

\* a reduction that emits nothing for an instant whose window starts past the
\* end of the buffer
RECURSIVE MinMaxSkipping(_, _, _, _, _, _)
MinMaxSkipping(buffer, extractAtTimes, k, sr, ws, defaultValue) ==
  IF k > Len(extractAtTimes)
    THEN <<>>
    ELSE (IF Round(extractAtTimes[k].n * sr, extractAtTimes[k].d) >= Len(buffer)
            THEN <<>>
            ELSE <<MinMaxAt(buffer, extractAtTimes[k], sr, ws, defaultValue)>>)
         \o MinMaxSkipping(buffer, extractAtTimes, k + 1, sr, ws, defaultValue)

RECURSIVE MinMaxFrom(_, _, _, _, _, _)
MinMaxFrom(buffer, extractAtTimes, k, sr, ws, defaultValue) ==
  IF k > Len(extractAtTimes)
    THEN <<>>
    ELSE <<MinMaxAt(buffer, extractAtTimes[k], sr, ws, defaultValue)>>
         \o MinMaxFrom(buffer, extractAtTimes, k + 1, sr, ws, defaultValue)

MinMax(buffer, extractAtTimes, sr, ws, defaultValue) ==
  MinMaxFrom(buffer, extractAtTimes, 1, sr, ws, defaultValue)

-----------------------------------------------------------------------------
(* Messages *)

\* the locals downSample() computes before it picks a backend; the field
\* domain is history: the visible time range the instants were taken from
Plan(xs, sr, yd) ==
  [extractAtTimes |-> ExtractAtTimes(xs),
   sampleRate |-> sr,
   windowSize |-> GetSamplesPerPixel(xs, sr),
   defaultValue |-> DefaultValue(yd),
   domain |-> xs.domain]

\* a request that leaves defaultValue out (the worker then reads 0)
RequestWithoutDefault(plan, time) ==
  [cmd |-> "downSample",
   time |-> time,
   extractAtTimes |-> plan.extractAtTimes,
   sampleRate |-> plan.sampleRate,
   windowSize |-> plan.windowSize,
   defaultValue |-> 0,
   plan |-> Some(plan)]

\* the downSample request built by downSample(); the field plan is history:
\* the locals the request was built from
Request(plan, time) ==
  [cmd |-> "downSample",
   time |-> time,
   extractAtTimes |-> plan.extractAtTimes,
   sampleRate |-> plan.sampleRate,
   windowSize |-> plan.windowSize,
   defaultValue |-> plan.defaultValue,
   plan |-> Some(plan)]

\* the initialize message built by initWorker()
InitMessage(buffer) == [cmd |-> "initialize", buffer |-> buffer]

\* the worker's answer to a downSample request; the field plan is history
Response(req, buffer) ==
  [cmd |-> "downSample",
   time |-> req.time,
   downSampledView |-> MinMax(buffer, req.extractAtTimes, req.sampleRate,
                              req.windowSize, req.defaultValue),
   plan |-> req.plan]

\* a response whose command the layer does not know
UnknownResponse ==
  [cmd |-> "unknown", time |-> 0, downSampledView |-> <<>>, plan |-> None]

\* the history record of a handler that has called nothing yet
Op(name) ==
  [op |-> name, decision |-> "none", calls |-> {}, factor |-> 0,
   deltaX |-> 0, threw |-> FALSE, time |-> 0, stored |-> None]

-----------------------------------------------------------------------------
(* Timeline *)

\* the elements of an array
Elements(seq) == { seq[i] : i \in 1..Len(seq) }

\* an object without properties, and the assignment map[key] = value
EmptyMap == [key \in {} |-> key]
Put(map, key, value) ==
  [k \in DOMAIN map \cup {key} |-> IF k = key THEN value ELSE map[k]]

\* one call made by a method: its name, the object it is made on, its argument
Call(name, on, arg) == <<name, on, arg>>

\* the history record of a Timeline method that has called nothing yet
TimelineOp(name) ==
  [op |-> name, arg |-> None, calls |-> <<>>, threw |-> FALSE]

\* the timeline after its constructor
TimelineInit ==
  /\ state = None
  /\ tracks = <<>>
  /\ trackById = EmptyMap
  /\ trackLayers = EmptyMap
  /\ groupedLayers = EmptyMap
  /\ timelineOp = TimelineOp("constructor")

\* set state that enters the new state before it leaves the old one
SetStateEnterFirst(newState) ==
  /\ state' = Some(newState)
  /\ timelineOp' =
       [TimelineOp("state") EXCEPT
          !.arg = Some(newState),
          !.calls = <<Call("enter", newState, None)>> \o
                    (IF state # None
                       THEN <<Call("exit", state[1], None)>>
                       ELSE <<>>)]
  /\ UNCHANGED <<tracks, trackById, trackLayers, groupedLayers>>

\* set state(state): exit the current state, if any, then enter the new one
SetState(newState) ==
  /\ state' = Some(newState)
  /\ timelineOp' =
       [TimelineOp("state") EXCEPT
          !.arg = Some(newState),
          !.calls = (IF state # None
                       THEN <<Call("exit", state[1], None)>>
                       ELSE <<>>) \o
                    <<Call("enter", newState, None)>>]
  /\ UNCHANGED <<tracks, trackById, trackLayers, groupedLayers>>

\* _handleEvent(e): emit 'event', then hand e to the current state, if any
HandleEvent(e) ==
  /\ timelineOp' =
       [TimelineOp("_handleEvent") EXCEPT
          !.arg = Some(e),
          !.calls = <<Call("emit", "event", e)>> \o
                    (IF state = None
                       THEN <<>>
                       ELSE <<Call("handleEvent", state[1], e)>>)]
  /\ UNCHANGED <<state, tracks, trackById, trackLayers, groupedLayers>>

\* add that pushes the track without looking for it in the collection
AddUnchecked(track, op) ==
  /\ tracks' = Append(tracks, track)
  /\ trackLayers' = IF track \in DOMAIN trackLayers
                      THEN trackLayers
                      ELSE Put(trackLayers, track, <<>>)
  /\ timelineOp' = [op EXCEPT !.calls = @ \o <<Call("configure", track, None),
                                               Call("push", "tracks", track),
                                               Call("_createInteraction",
                                                    track, None)>>]

\* add(track): throw when the track is in the collection, else push it
Add(track, op) ==
  IF track \in Elements(tracks)
    THEN /\ timelineOp' = [op EXCEPT !.threw = TRUE]
         /\ UNCHANGED <<tracks, trackLayers>>
    ELSE /\ tracks' = Append(tracks, track)
         /\ trackLayers' = IF track \in DOMAIN trackLayers
                             THEN trackLayers
                             ELSE Put(trackLayers, track, <<>>)
         /\ timelineOp' = [op EXCEPT
                             !.calls = @ \o <<Call("configure", track, None),
                                              Call("push", "tracks", track),
                                              Call("_createInteraction",
                                                   track, None)>>]

\* what new Track() returns: an object that is none of the tracks so far
NewTrack == Cardinality(DOMAIN trackLayers) + 1

\* the host calls add with a track of the timeline or with a new Track
AddTrack(track) ==
  /\ track <= MaxTracks
  /\ track <= NewTrack
  /\ Add(track, [TimelineOp("add") EXCEPT !.arg = Some(track)])
  /\ UNCHANGED <<state, trackById, groupedLayers>>

\* createTrack($el, trackHeight, trackId): trackId is optional
CreateTrack(trackId) ==
  LET track == NewTrack
      op == [TimelineOp("createTrack") EXCEPT !.arg = trackId]
  IN /\ track <= MaxTracks
     /\ IF trackId # None /\ trackId[1] \in DOMAIN trackById
          THEN /\ timelineOp' = [op EXCEPT !.threw = TRUE]
               /\ UNCHANGED <<tracks, trackById, trackLayers>>
          ELSE /\ trackById' = IF trackId = None
                                 THEN trackById
                                 ELSE Put(trackById, trackId[1], track)
               /\ Add(track, op)
     /\ UNCHANGED <<state, groupedLayers>>

\* the layer is in the layers of some track
InSomeTrack(layer) ==
  \E track \in DOMAIN trackLayers : layer \in Elements(trackLayers[track])

\* addLayer(layer, trackOrTrackId, groupId); trackOrTrackId is <<"track", a
\* Track>> or <<"id", a trackId>>.  The host adds a layer that is in no
\* track, to a track of the timeline.
AddLayer(layer, trackOrTrackId, groupId) ==
  LET track == IF trackOrTrackId[1] = "id"
                 THEN trackById[trackOrTrackId[2]]
                 ELSE trackOrTrackId[2]
      group == IF groupId \in DOMAIN groupedLayers
                 THEN groupedLayers[groupId]
                 ELSE <<>>
  IN /\ ~InSomeTrack(layer)
     /\ Len(group) < MaxGroup
     /\ trackLayers' = [trackLayers EXCEPT ![track] = Append(@, layer)]
     /\ groupedLayers' = Put(groupedLayers, groupId, Append(group, layer))
     /\ timelineOp' = [TimelineOp("addLayer") EXCEPT
                         !.arg = Some(layer),
                         !.calls = <<Call("add", track, layer)>>]
     /\ UNCHANGED <<state, tracks, trackById>>

\* Array.prototype.splice(start, deleteCount) for a start of 0 or more
Splice(array, start, deleteCount) ==
  LET from == IF start > Len(array) THEN Len(array) ELSE start
      count == IF deleteCount > Len(array) - from
                 THEN Len(array) - from
                 ELSE deleteCount
  IN SubSeq(array, 1, from) \o SubSeq(array, from + count + 1, Len(array))

\* the start index splice makes of a Layer object: the object converts to
\* NaN, and NaN to 0
ToIntegerOfLayer(layer) == 0

\* removeLayer(layer): remove the layer from every track that has it, splice
\* every group that has it, delete the groups left empty
RemoveLayer(layer) ==
  LET spliced == [groupId \in DOMAIN groupedLayers |->
                    IF layer \in Elements(groupedLayers[groupId])
                      THEN Splice(groupedLayers[groupId],
                                  ToIntegerOfLayer(layer), 1)
                      ELSE groupedLayers[groupId]]
      kept == { groupId \in DOMAIN groupedLayers : Len(spliced[groupId]) # 0 }
  IN /\ trackLayers' =
          [track \in DOMAIN trackLayers |->
             IF track \in Elements(tracks)
               THEN SelectSeq(trackLayers[track], LAMBDA l : l # layer)
               ELSE trackLayers[track]]
     /\ groupedLayers' = [groupId \in kept |-> spliced[groupId]]
     /\ timelineOp' = [TimelineOp("removeLayer") EXCEPT !.arg = Some(layer)]
     /\ UNCHANGED <<state, tracks, trackById>>

-----------------------------------------------------------------------------
(* ContextEditionState *)

\* what if (!v) takes as false
Falsy(v) == v \in {"undefined", "null", "false"}

\* this.layers: the layers of the timeline's tracks, track after track
RECURSIVE LayersOf(_)
LayersOf(trackSeq) ==
  IF trackSeq = <<>>
    THEN <<>>
    ELSE trackLayers[Head(trackSeq)] \o LayersOf(Tail(trackSeq))

\* layer.hasElement(target)
HasElement(layer, target) == target \in ElementsOf[layer]

\* the history record of a handler that has called nothing yet
EditionOp(name) == [op |-> name, shiftKey |-> FALSE, calls |-> <<>>]

\* the state after its constructor, which sets none of the three fields
EditionInit ==
  /\ mouseDown = "undefined"
  /\ currentTarget = "undefined"
  /\ currentLayer = "undefined"
  /\ hitSinceUp = {}
  /\ editionOp = EditionOp("constructor")

\* onMouseDown(e): the first layer that has the target becomes the current
\* layer; when no layer has it the current layer is left as it is
OnMouseDown(target) ==
  LET layers == LayersOf(tracks)
      hits == { i \in 1..Len(layers) : HasElement(layers[i], target) }
      first == CHOOSE i \in hits : \A j \in hits : i <= j
  IN /\ mouseDown' = "true"
     /\ currentTarget' = target
     /\ IF hits = {}
          THEN UNCHANGED <<currentLayer, hitSinceUp>>
          ELSE /\ currentLayer' = layers[first]
               /\ hitSinceUp' = hitSinceUp \cup {layers[first]}
     /\ editionOp' = EditionOp("onMouseDown")

\* onMouseMove(e): edit or, with the shift key, stretch the context of the
\* current layer, then update the layer in the tracks
OnMouseMove(dx, dy, shiftKey) ==
  LET op == [EditionOp("onMouseMove") EXCEPT !.shiftKey = shiftKey]
  IN /\ IF Falsy(mouseDown) \/ Falsy(currentLayer)
          THEN editionOp' = op
          ELSE editionOp' =
                 [op EXCEPT !.calls =
                    <<Call(IF ~shiftKey THEN "editContext"
                                        ELSE "stretchContext",
                           currentLayer, <<dx, dy, currentTarget>>),
                      Call("update", "tracks", currentLayer)>>]
     /\ UNCHANGED <<mouseDown, currentTarget, currentLayer, hitSinceUp>>

\* onMouseUp that forgets the target but keeps the current layer
OnMouseUpKeepLayer ==
  /\ mouseDown' = "false"
  /\ currentTarget' = "null"
  /\ hitSinceUp' = {}
  /\ editionOp' = EditionOp("onMouseUp")
  /\ UNCHANGED currentLayer

\* onMouseUp(e)
OnMouseUp ==
  /\ mouseDown' = "false"
  /\ currentTarget' = "null"
  /\ currentLayer' = "null"
  /\ hitSinceUp' = {}
  /\ editionOp' = EditionOp("onMouseUp")

-----------------------------------------------------------------------------
(* BreakpointBehavior *)

\* renderingContext.xScale and yScale, linear; y grows downwards in pixels
XScale(renderingContext, value) == value * renderingContext.xUnit
XInvert(renderingContext, pixel) == pixel \div renderingContext.xUnit
YScale(renderingContext, value) ==
  renderingContext.height - value * renderingContext.yUnit
YInvert(renderingContext, pixel) ==
  (renderingContext.height - pixel) \div renderingContext.yUnit

\* Array.prototype.indexOf, counting from 1; 0 when the value is not there
FirstIndexOf(array, value) ==
  LET found == { i \in 1..Len(array) : array[i] = value }
  IN IF found = {} THEN 0 ELSE CHOOSE i \in found : \A j \in found : i <= j

\* the history record of an edit
BreakpointOp(name) ==
  [op |-> name, renderingContext |-> None, index |-> 0, x |-> 0, dx |-> 0,
   siblings |-> <<>>]

\* the layer after construction, with its data
BreakpointInit ==
  /\ breakpoints \in BreakpointData
  /\ breakpointOp = BreakpointOp("constructor")

\* edit(renderingContext, shape, datum, dx, dy, target), datum being
\* data[i]: move the breakpoint by (dx, -dy) pixels, not beyond its siblings
\* when there are more than two breakpoints, and not outside 0..height
Edit(renderingContext, i, dx, dy) ==
  LET datum == breakpoints[i]
      layerHeight == renderingContext.height
      x == XScale(renderingContext, datum.cx)
      y == YScale(renderingContext, datum.cy)
      xMap == SortSeq([k \in 1..Len(breakpoints) |->
                         XScale(renderingContext, breakpoints[k].cx)],
                      LAMBDA a, b : a < b)
      index == FirstIndexOf(xMap, x)
      locked == /\ Len(breakpoints) > 2
                /\ \/ index > 1 /\ x + dx < xMap[index - 1]
                   \/ index < Len(xMap) /\ x + dx > xMap[index + 1]
      targetX == IF locked THEN x ELSE x + dx
      targetY == IF y - dy < 0 THEN 0
                 ELSE IF y - dy > layerHeight THEN layerHeight
                 ELSE y - dy
  IN /\ targetX \in PixelColumns
     /\ breakpoints' =
          [breakpoints EXCEPT
             ![i] = [cx |-> XInvert(renderingContext, targetX),
                     cy |-> YInvert(renderingContext, targetY)]]
     /\ breakpointOp' =
          [BreakpointOp("edit") EXCEPT
             !.renderingContext = Some(renderingContext),
             !.index = i, !.x = x, !.dx = dx,
             !.siblings = <<IF index > 1 THEN Some(xMap[index - 1]) ELSE None,
                            IF index < Len(xMap) THEN Some(xMap[index + 1])
                                                 ELSE None>>]

\* a layer of breakpoints without data, never edited
NoBreakpoints ==
  /\ breakpoints = <<>>
  /\ breakpointOp = BreakpointOp("constructor")

-----------------------------------------------------------------------------
(* Initial state: a constructed layer, not yet loaded *)

InitFrom(backends, buffers, sampleRates, yDomains, widths) ==
  /\ useWorker \in backends
  /\ data \in buffers
  /\ dataDetached = FALSE
  /\ sampleRate \in sampleRates
  /\ duration \in Durations
  /\ yDomain \in yDomains
  /\ \E width \in widths : xScale = [domain |-> <<0, 1>>, range |-> <<0, width>>]
  /\ loaded = FALSE
  /\ currentZoomFactor = InitialZoomFactor
  /\ currentDragDeltaX = InitialDragDeltaX
  /\ xxScale = None
  /\ cache = None
  /\ isProcessing = "undefined"
  /\ currentWorkerCallTime = None
  /\ now = 1
  /\ toWorker = <<>>
  /\ workerBuffer = None
  /\ fromWorker = EmptyBag
  /\ dispatched = <<>>
  /\ applied = <<>>
  /\ cachePlan = None
  /\ lastOp = Op("constructor")

\* the other objects stay as constructed
OthersInit == TimelineInit /\ EditionInit /\ NoBreakpoints

Init == InitFrom(BOOLEAN, Buffers, SampleRates, YDomains, {2}) /\ OthersInit

InitInline ==
  /\ InitFrom({FALSE}, InlineBuffers, InlineSampleRates, InlineYDomains, {3})
  /\ OthersInit

-----------------------------------------------------------------------------
(* WaveformVis *)

\* initWorker: create the worker, reset the call time, transfer the buffer
InitWorker ==
  /\ currentWorkerCallTime' = Some(0)
  /\ toWorker' = Append(toWorker, InitMessage(data))
  /\ dataDetached' = TRUE

\* onload: create xxScale and, with useWorker, the worker
OnLoad ==
  /\ ~loaded
  /\ loaded' = TRUE
  /\ xxScale' = Some([domain |-> <<0, 1>>, range |-> <<0, duration>>])
  /\ IF useWorker
       THEN InitWorker
       ELSE UNCHANGED <<currentWorkerCallTime, toWorker, dataDetached>>
  /\ lastOp' = [Op("onload") EXCEPT
                  !.calls = IF useWorker THEN {"initWorker"} ELSE {}]
  /\ UNCHANGED <<useWorker, data, sampleRate, duration, yDomain, xScale,
                 currentZoomFactor, currentDragDeltaX, cache, isProcessing,
                 now, workerBuffer, fromWorker, dispatched, applied, cachePlan>>

\* setDownSample that updates the range of xxScale but not its domain
SetDownSampleKeepDomain(view, plan, op) ==
  /\ isProcessing' = "false"
  /\ xxScale' = Some([xxScale[1] EXCEPT !.range = xScale.domain])
  /\ cache' = Some(view)
  /\ cachePlan' = Some(plan)
  /\ lastOp' = [op EXCEPT !.calls = @ \cup {"setDownSample", "draw", "_draw"},
                          !.stored = Some(view)]

\* setDownSample(view): rebuild xxScale, replace the cache, draw the view
\* (draw(view) goes to _draw: an array is never falsy)
SetDownSample(view, plan, op) ==
  /\ isProcessing' = "false"
  /\ xxScale' = Some([domain |-> <<0, Len(view)>>, range |-> xScale.domain])
  /\ cache' = Some(view)
  /\ cachePlan' = Some(plan)
  /\ lastOp' = [op EXCEPT !.calls = @ \cup {"setDownSample", "draw", "_draw"},
                          !.stored = Some(view)]

\* initWorker has run: this.resampler exists
ResamplerCreated == currentWorkerCallTime # None

\* downSample that empties the cache while a request is in flight
DownSampleClearing(op) ==
  LET plan == Plan(xScale, sampleRate, yDomain)
      req == Request(plan, now)
  IN IF useWorker
       THEN /\ Len(dispatched) < MaxDispatch
            /\ toWorker' = Append(toWorker, req)
            /\ dispatched' = Append(dispatched, req.time)
            /\ lastOp' = [op EXCEPT
                            !.calls = @ \cup {"downSample", "postMessage"},
                            !.time = req.time]
            /\ cache' = None
            /\ UNCHANGED <<xxScale, isProcessing, cachePlan>>
       ELSE /\ SetDownSample(
                 MinMax(BufferOf(data, dataDetached), plan.extractAtTimes,
                        plan.sampleRate, plan.windowSize, plan.defaultValue),
                 plan,
                 [op EXCEPT !.calls = @ \cup {"downSample", "minMax"}])
            /\ UNCHANGED <<toWorker, dispatched>>

\* downSample(): build the plan, then post it to the worker or reduce inline
DownSample(op) ==
  LET plan == Plan(xScale, sampleRate, yDomain)
      req == Request(plan, now)
  IN IF useWorker
       THEN IF ResamplerCreated
              THEN /\ Len(dispatched) < MaxDispatch
                   /\ toWorker' = Append(toWorker, req)
                   /\ dispatched' = Append(dispatched, req.time)
                   /\ lastOp' = [op EXCEPT
                                   !.calls = @ \cup {"downSample", "postMessage"},
                                   !.time = req.time]
                   /\ UNCHANGED <<xxScale, cache, isProcessing, cachePlan>>
              ELSE /\ lastOp' = [op EXCEPT
                                   !.calls = @ \cup {"downSample", "postMessage"},
                                   !.threw = TRUE]
                   /\ UNCHANGED <<xxScale, cache, isProcessing, cachePlan,
                                  toWorker, dispatched>>
       ELSE /\ SetDownSample(
                 MinMax(BufferOf(data, dataDetached), plan.extractAtTimes,
                        plan.sampleRate, plan.windowSize, plan.defaultValue),
                 plan,
                 [op EXCEPT !.calls = @ \cup {"downSample", "minMax"}])
            /\ UNCHANGED <<toWorker, dispatched>>

\* draw(data): without data fall back to downSample, else render
Draw(d, op) ==
  IF d = None
    THEN DownSample([op EXCEPT !.calls = @ \cup {"draw"}])
    ELSE /\ lastOp' = [op EXCEPT !.calls = @ \cup {"draw", "_draw"}]
         /\ UNCHANGED <<xxScale, cache, isProcessing, cachePlan, toWorker,
                        dispatched>>

\* the timeline asks the layer to draw itself: draw()
DrawLayer ==
  /\ loaded
  /\ Draw(None, Op("draw"))
  /\ UNCHANGED <<useWorker, data, dataDetached, sampleRate, duration, yDomain,
                 xScale, loaded, currentZoomFactor, currentDragDeltaX,
                 currentWorkerCallTime, now, workerBuffer, fromWorker,
                 applied>>

\* the timeline has drawn the layer: draw() always reaches downSample, which
\* stores a view (inline) or posts a request (worker)
Drawn == IF useWorker THEN dispatched # <<>> ELSE cache # None

\* xZoom with the thresholds compared by <= instead of <
XZoomInclusive(factor, deltaX) ==
  LET deltaZoom == Abs(currentZoomFactor - factor)
      deltaDrag == Abs(currentDragDeltaX - deltaX)
      op == [Op("xZoom") EXCEPT !.factor = factor, !.deltaX = deltaX]
  IN /\ loaded
     /\ Drawn
     /\ IF deltaZoom <= triggerUpdateZoomDelta
           /\ deltaDrag <= triggerUpdateDragDelta
          THEN /\ Draw(cache, [op EXCEPT !.decision = "reuse"])
               /\ UNCHANGED <<currentZoomFactor, currentDragDeltaX>>
          ELSE /\ currentZoomFactor' = factor
               /\ currentDragDeltaX' = deltaX
               /\ DownSample([op EXCEPT !.decision = "recompute"])
     /\ UNCHANGED <<useWorker, data, dataDetached, sampleRate, duration,
                    yDomain, xScale, loaded, currentWorkerCallTime, now,
                    workerBuffer, fromWorker, applied>>

\* xZoom that rescales xxScale onto the visible time range when it reuses
XZoomRescale(factor, deltaX) ==
  LET deltaZoom == Abs(currentZoomFactor - factor)
      deltaDrag == Abs(currentDragDeltaX - deltaX)
      op == [Op("xZoom") EXCEPT !.factor = factor, !.deltaX = deltaX]
  IN /\ loaded
     /\ Drawn
     /\ IF deltaZoom < triggerUpdateZoomDelta
           /\ deltaDrag < triggerUpdateDragDelta
          THEN /\ IF cache = None
                    THEN Draw(cache, [op EXCEPT !.decision = "reuse"])
                    ELSE /\ xxScale' = Some([xxScale[1] EXCEPT
                                               !.range = xScale.domain])
                         /\ lastOp' = [op EXCEPT
                                         !.decision = "reuse",
                                         !.calls = {"draw", "_draw"}]
                         /\ UNCHANGED <<cache, isProcessing, cachePlan,
                                        toWorker, dispatched>>
               /\ UNCHANGED <<currentZoomFactor, currentDragDeltaX>>
          ELSE /\ currentZoomFactor' = factor
               /\ currentDragDeltaX' = deltaX
               /\ DownSample([op EXCEPT !.decision = "recompute"])
     /\ UNCHANGED <<useWorker, data, dataDetached, sampleRate, duration,
                    yDomain, xScale, loaded, currentWorkerCallTime, now,
                    workerBuffer, fromWorker, applied>>

\* xZoom that remembers the factor and drag of every event, reused or not
XZoomTracking(factor, deltaX) ==
  LET deltaZoom == Abs(currentZoomFactor - factor)
      deltaDrag == Abs(currentDragDeltaX - deltaX)
      op == [Op("xZoom") EXCEPT !.factor = factor, !.deltaX = deltaX]
  IN /\ loaded
     /\ Drawn
     /\ currentZoomFactor' = factor
     /\ currentDragDeltaX' = deltaX
     /\ IF deltaZoom < triggerUpdateZoomDelta
           /\ deltaDrag < triggerUpdateDragDelta
          THEN Draw(cache, [op EXCEPT !.decision = "reuse"])
          ELSE DownSample([op EXCEPT !.decision = "recompute"])
     /\ UNCHANGED <<useWorker, data, dataDetached, sampleRate, duration,
                    yDomain, xScale, loaded, currentWorkerCallTime, now,
                    workerBuffer, fromWorker, applied>>

\* xZoom(e): draw the cached view on a small change, else recompute
XZoom(factor, deltaX) ==
  LET deltaZoom == Abs(currentZoomFactor - factor)
      deltaDrag == Abs(currentDragDeltaX - deltaX)
      op == [Op("xZoom") EXCEPT !.factor = factor, !.deltaX = deltaX]
  IN /\ loaded
     /\ Drawn
     /\ IF deltaZoom < triggerUpdateZoomDelta
           /\ deltaDrag < triggerUpdateDragDelta
          THEN /\ Draw(cache, [op EXCEPT !.decision = "reuse"])
               /\ UNCHANGED <<currentZoomFactor, currentDragDeltaX>>
          ELSE /\ currentZoomFactor' = factor
               /\ currentDragDeltaX' = deltaX
               /\ DownSample([op EXCEPT !.decision = "recompute"])
     /\ UNCHANGED <<useWorker, data, dataDetached, sampleRate, duration,
                    yDomain, xScale, loaded, currentWorkerCallTime, now,
                    workerBuffer, fromWorker, applied>>

\* resamplerResponse without the switch: whatever arrives is stored
ResamplerResponseAnyCommand(msg) ==
  LET op == [Op("resamplerResponse") EXCEPT !.time = msg.time]
  IN /\ BagIn(msg, fromWorker)
     /\ fromWorker' = fromWorker (-) SetToBag({msg})
     /\ isProcessing' = "false"
     /\ xxScale' = Some([domain |-> <<0, Len(msg.downSampledView)>>,
                         range |-> xScale.domain])
     /\ cache' = Some(msg.downSampledView)
     /\ cachePlan' = msg.plan
     /\ lastOp' = [op EXCEPT !.calls = {"setDownSample", "draw", "_draw"},
                             !.stored = Some(msg.downSampledView)]
     /\ applied' = Append(applied, msg.time)
     /\ UNCHANGED <<useWorker, data, dataDetached, sampleRate, duration,
                    yDomain, xScale, loaded, currentZoomFactor,
                    currentDragDeltaX, currentWorkerCallTime, now, toWorker,
                    workerBuffer, dispatched>>

\* resamplerResponse that drops a response older than the latest request
ResamplerResponseLatestOnly(msg) ==
  LET op == [Op("resamplerResponse") EXCEPT !.time = msg.time]
  IN /\ BagIn(msg, fromWorker)
     /\ fromWorker' = fromWorker (-) SetToBag({msg})
     /\ IF msg.cmd = "downSample"
          THEN IF msg.time < dispatched[Len(dispatched)]
                 THEN /\ lastOp' = op
                      /\ UNCHANGED <<xxScale, cache, isProcessing, cachePlan,
                                     applied>>
                 ELSE /\ SetDownSample(msg.downSampledView, msg.plan[1], op)
                      /\ applied' = Append(applied, msg.time)
          ELSE /\ lastOp' = [op EXCEPT !.threw = TRUE]
               /\ UNCHANGED <<xxScale, cache, isProcessing, cachePlan, applied>>
     /\ UNCHANGED <<useWorker, data, dataDetached, sampleRate, duration,
                    yDomain, xScale, loaded, currentZoomFactor,
                    currentDragDeltaX, currentWorkerCallTime, now, toWorker,
                    workerBuffer, dispatched>>

\* resamplerResponse(message): a pending response arrives
ResamplerResponse(msg) ==
  LET op == [Op("resamplerResponse") EXCEPT !.time = msg.time]
  IN /\ BagIn(msg, fromWorker)
     /\ fromWorker' = fromWorker (-) SetToBag({msg})
     /\ IF msg.cmd = "downSample"
          THEN /\ SetDownSample(msg.downSampledView, msg.plan[1], op)
               /\ applied' = Append(applied, msg.time)
          ELSE /\ lastOp' = [op EXCEPT !.threw = TRUE]
               /\ UNCHANGED <<xxScale, cache, isProcessing, cachePlan, applied>>
     /\ UNCHANGED <<useWorker, data, dataDetached, sampleRate, duration,
                    yDomain, xScale, loaded, currentZoomFactor,
                    currentDragDeltaX, currentWorkerCallTime, now, toWorker,
                    workerBuffer, dispatched>>

-----------------------------------------------------------------------------
(* The resampler worker and the message channel back to the layer *)

\* the worker handles the oldest message posted to it
WorkerMessage ==
  /\ toWorker # <<>>
  /\ LET msg == Head(toWorker)
     IN IF msg.cmd = "initialize"
          THEN /\ workerBuffer' = Some(msg.buffer)
               /\ UNCHANGED fromWorker
          ELSE /\ workerBuffer # None
               /\ fromWorker' =
                    fromWorker (+) SetToBag({Response(msg, workerBuffer[1])})
               /\ UNCHANGED workerBuffer
  /\ toWorker' = Tail(toWorker)
  /\ lastOp' = Op("none")
  /\ UNCHANGED <<useWorker, data, dataDetached, sampleRate, duration, yDomain,
                 xScale, loaded, currentZoomFactor, currentDragDeltaX, xxScale,
                 cache, isProcessing, currentWorkerCallTime, now, dispatched,
                 applied, cachePlan>>

\* the worker posts a message with a command the layer does not know
WorkerUnknown ==
  /\ workerBuffer # None
  /\ ~BagIn(UnknownResponse, fromWorker)
  /\ fromWorker' = fromWorker (+) SetToBag({UnknownResponse})
  /\ lastOp' = Op("none")
  /\ UNCHANGED <<useWorker, data, dataDetached, sampleRate, duration, yDomain,
                 xScale, loaded, currentZoomFactor, currentDragDeltaX, xxScale,
                 cache, isProcessing, currentWorkerCallTime, now, toWorker,
                 workerBuffer, dispatched, applied, cachePlan>>

\* a pending response never arrives
LoseResponse(msg) ==
  /\ BagIn(msg, fromWorker)
  /\ fromWorker' = fromWorker (-) SetToBag({msg})
  /\ lastOp' = Op("none")
  /\ UNCHANGED <<useWorker, data, dataDetached, sampleRate, duration, yDomain,
                 xScale, loaded, currentZoomFactor, currentDragDeltaX, xxScale,
                 cache, isProcessing, currentWorkerCallTime, now, toWorker,
                 workerBuffer, dispatched, applied, cachePlan>>

-----------------------------------------------------------------------------
(* The environment: the clock and the timeline that owns base.xScale *)

\* the clock reaches the next millisecond; the value of the clock is only
\* ever read by a dispatch, so the model advances it after one has read it
Tick ==
  /\ dispatched # <<>>
  /\ dispatched[Len(dispatched)] = now
  /\ now' = now + 1
  /\ lastOp' = Op("none")
  /\ UNCHANGED <<useWorker, data, dataDetached, sampleRate, duration, yDomain,
                 xScale, loaded, currentZoomFactor, currentDragDeltaX, xxScale,
                 cache, isProcessing, currentWorkerCallTime, toWorker,
                 workerBuffer, fromWorker, dispatched, applied, cachePlan>>

\* the host sets the parameter useWorker of a loaded layer
SetUseWorker(value) ==
  /\ loaded
  /\ value # useWorker
  /\ useWorker' = value
  /\ lastOp' = Op("none")
  /\ UNCHANGED <<data, dataDetached, sampleRate, duration, yDomain, xScale,
                 loaded, currentZoomFactor, currentDragDeltaX, xxScale, cache,
                 isProcessing, currentWorkerCallTime, now, toWorker,
                 workerBuffer, fromWorker, dispatched, applied, cachePlan>>

\* the timeline zooms or pans: the visible time range changes
BaseZoom(domain) ==
  /\ domain # xScale.domain
  /\ xScale' = [xScale EXCEPT !.domain = domain]
  /\ lastOp' = Op("none")
  /\ UNCHANGED <<useWorker, data, dataDetached, sampleRate, duration, yDomain,
                 loaded, currentZoomFactor, currentDragDeltaX, xxScale, cache,
                 isProcessing, currentWorkerCallTime, now, toWorker,
                 workerBuffer, fromWorker, dispatched, applied, cachePlan>>

\* the timeline is resized: the pixel width changes
BaseResize(width) ==
  /\ width # Width(xScale)
  /\ xScale' = [xScale EXCEPT !.range = <<0, width>>]
  /\ lastOp' = Op("none")
  /\ UNCHANGED <<useWorker, data, dataDetached, sampleRate, duration, yDomain,
                 loaded, currentZoomFactor, currentDragDeltaX, xxScale, cache,
                 isProcessing, currentWorkerCallTime, now, toWorker,
                 workerBuffer, fromWorker, dispatched, applied, cachePlan>>

-----------------------------------------------------------------------------
\* a step of the layer or of its worker leaves the other objects alone
OnlyLayer == UNCHANGED <<timelineVars, editionVars, breakpointVars>>

Next ==
  \/ OnLoad /\ OnlyLayer
  \/ DrawLayer /\ OnlyLayer
  \/ (\E factor \in Factors, deltaX \in Drags : XZoom(factor, deltaX))
       /\ OnlyLayer
  \/ (\E msg \in BagToSet(fromWorker) : ResamplerResponse(msg)) /\ OnlyLayer
  \/ WorkerMessage /\ OnlyLayer
  \/ WorkerUnknown /\ OnlyLayer
  \/ (\E msg \in BagToSet(fromWorker) : LoseResponse(msg)) /\ OnlyLayer
  \/ Tick /\ OnlyLayer
  \/ (\E domain \in XDomains : BaseZoom(domain)) /\ OnlyLayer

Spec == Init /\ [][Next]_vars

\* the inline backend alone, over more buffers, time ranges and widths
NextInline ==
  \/ OnLoad /\ OnlyLayer
  \/ DrawLayer /\ OnlyLayer
  \/ (\E factor \in Factors, deltaX \in Drags : XZoom(factor, deltaX))
       /\ OnlyLayer
  \/ (\E domain \in InlineXDomains : BaseZoom(domain)) /\ OnlyLayer
  \/ (\E width \in InlineWidths : BaseResize(width)) /\ OnlyLayer

SpecInline == InitInline /\ [][NextInline]_vars

\* the layer whose parameter useWorker the host may set after onload
NextParam ==
  \/ Next
  \/ (\E value \in BOOLEAN : SetUseWorker(value)) /\ OnlyLayer

SpecParam == Init /\ [][NextParam]_vars

-----------------------------------------------------------------------------
(* The Timeline *)

\* a constructed layer that is never loaded
LayerInit == InitFrom({FALSE}, Buffers, SampleRates, YDomains, {2})

\* a step of the timeline leaves the other objects alone
OnlyTimeline == UNCHANGED <<layerVars, editionVars, breakpointVars>>

InitTimeline == LayerInit /\ TimelineInit /\ EditionInit /\ NoBreakpoints

\* the interaction state, the events and the tracks of a timeline
NextTimeline ==
  \/ (\E newState \in States : SetState(newState)) /\ OnlyTimeline
  \/ (\E e \in Events : HandleEvent(e)) /\ OnlyTimeline
  \/ (\E track \in 1..MaxTracks : AddTrack(track)) /\ OnlyTimeline
  \/ (\E trackId \in {None} \cup { Some(id) : id \in TrackIds } :
        CreateTrack(trackId)) /\ OnlyTimeline

SpecTimeline == InitTimeline /\ [][NextTimeline]_vars

\* the tracks, layers and groups of a timeline
NextLayers ==
  \/ (\E trackId \in {None} \cup { Some(id) : id \in TrackIds } :
        CreateTrack(trackId)) /\ OnlyTimeline
  \/ (\E layer \in Layers, groupId \in GroupIds,
          trackOrTrackId \in { <<"track", track>> : track \in Elements(tracks) }
                             \cup { <<"id", id>> : id \in DOMAIN trackById } :
        AddLayer(layer, trackOrTrackId, groupId)) /\ OnlyTimeline
  \/ (\E layer \in Layers : RemoveLayer(layer)) /\ OnlyTimeline

SpecLayers == InitTimeline /\ [][NextLayers]_vars

-----------------------------------------------------------------------------
(* The ContextEditionState of a timeline with two layers *)

\* a timeline after createTrack, addLayer of l1 and of l2, and set state
TimelineWithLayers ==
  /\ state = Some("s1")
  /\ tracks = <<1>>
  /\ trackById = EmptyMap
  /\ trackLayers = Put(EmptyMap, 1, <<"l1", "l2">>)
  /\ groupedLayers = Put(EmptyMap, "default", <<"l1", "l2">>)
  /\ timelineOp = [TimelineOp("state") EXCEPT
                     !.arg = Some("s1"),
                     !.calls = <<Call("enter", "s1", None)>>]

OnlyEdition == UNCHANGED <<layerVars, timelineVars, breakpointVars>>

InitEdition == LayerInit /\ TimelineWithLayers /\ EditionInit /\ NoBreakpoints

\* handleEvent(e): mousedown, mousemove and mouseup go to their handlers
NextEdition ==
  \/ (\E target \in Targets : OnMouseDown(target)) /\ OnlyEdition
  \/ (\E dx \in Moves, dy \in Moves, shiftKey \in BOOLEAN :
        OnMouseMove(dx, dy, shiftKey)) /\ OnlyEdition
  \/ OnMouseUp /\ OnlyEdition

SpecEdition == InitEdition /\ [][NextEdition]_vars

-----------------------------------------------------------------------------
(* The BreakpointBehavior of a layer of breakpoints *)

OnlyBreakpoint == UNCHANGED <<layerVars, timelineVars, editionVars>>

InitBreakpoint == LayerInit /\ TimelineInit /\ EditionInit /\ BreakpointInit

NextBreakpoint ==
  \E renderingContext \in RenderingContexts, i \in 1..Len(breakpoints),
     dx \in Dxs, dy \in Dys :
    Edit(renderingContext, i, dx, dy) /\ OnlyBreakpoint

SpecBreakpoint == InitBreakpoint /\ [][NextBreakpoint]_vars

-----------------------------------------------------------------------------
(* Properties *)

StrictlyIncreasing(seq) ==
  \A i \in 1..Len(seq) : \A j \in 1..Len(seq) : i < j => seq[i] < seq[j]

\* C1: on the worker path a response is applied only when its identifier is
\* strictly greater than every identifier applied before it, so the applied
\* identifiers form a strictly increasing sequence and the response of an
\* earlier request never replaces the view of a later one.
C1_AppliedStrictlyIncreasing == StrictlyIncreasing(applied)

\* both deltas of the event e = (factor, deltaX) are below their thresholds
BelowThresholds(factor, deltaX) ==
  /\ Abs(currentZoomFactor - factor) < triggerUpdateZoomDelta
  /\ Abs(currentDragDeltaX - deltaX) < triggerUpdateDragDelta

\* the step redraws the cached view and computes nothing
RedrawsOnly ==
  /\ "_draw" \in lastOp'.calls
  /\ lastOp'.calls \cap {"downSample", "minMax", "postMessage",
                         "setDownSample"} = {}
  /\ UNCHANGED <<cache, xxScale, toWorker, dispatched>>

\* C2 as claimed: every xZoom event with both deltas strictly below their
\* thresholds is a reuse that redraws the cached view with no downSample call
\* and no request, and every other event is a recompute.
C2_ReuseNeverRecomputes ==
  [][lastOp'.op = "xZoom" =>
       IF BelowThresholds(lastOp'.factor, lastOp'.deltaX)
         THEN lastOp'.decision = "reuse" /\ RedrawsOnly
         ELSE lastOp'.decision = "recompute" /\ "downSample" \in lastOp'.calls
    ]_vars

\* C2 amended: an xZoom event with both deltas strictly below their
\* thresholds takes the reuse branch; with a cached view it redraws that view
\* with no downSample call and no request, without one it falls back to
\* downSample; an event with a delta at or above its threshold recomputes.
C2_ThresholdGate ==
  [][lastOp'.op = "xZoom" =>
       IF BelowThresholds(lastOp'.factor, lastOp'.deltaX)
         THEN /\ lastOp'.decision = "reuse"
              /\ UNCHANGED <<currentZoomFactor, currentDragDeltaX>>
              /\ IF cache # None
                   THEN RedrawsOnly
                   ELSE "downSample" \in lastOp'.calls
         ELSE lastOp'.decision = "recompute" /\ "downSample" \in lastOp'.calls
    ]_vars

\* a reuse with a non-zero zoom delta has redrawn a cached view
C2_Witness ==
  /\ lastOp.op = "xZoom"
  /\ lastOp.decision = "reuse"
  /\ "_draw" \in lastOp.calls
  /\ lastOp.factor # currentZoomFactor
  /\ cache # None

\* an xZoom step that took the reuse branch with a cached view
ReuseOfCachedView ==
  /\ lastOp'.op = "xZoom"
  /\ lastOp'.decision = "reuse"
  /\ cache # None

\* the visible time range is no longer the one of the last store
RangeChangedSinceStore == xxScale[1].range # xScale.domain

\* C3 as claimed: a reuse taken after the visible time range changed leaves
\* the cached view unchanged and leaves xxScale mapping [0, view.length) onto
\* the new visible time range.
C3_ReuseRescalesIndexScale ==
  [][ReuseOfCachedView /\ RangeChangedSinceStore =>
       /\ cache' = cache
       /\ xxScale'[1].domain = <<0, Len(cache'[1])>>
       /\ xxScale'[1].range = xScale'.domain
    ]_vars

\* C3 amended: a reuse taken after the visible time range changed leaves the
\* cached view and xxScale unchanged: xxScale still maps [0, view.length) onto
\* the time range of the last store, not onto the new visible range.
C3_ReuseKeepsIndexScale ==
  [][ReuseOfCachedView /\ RangeChangedSinceStore =>
       /\ cache' = cache
       /\ xxScale' = xxScale
       /\ xxScale'[1].domain = <<0, Len(cache'[1])>>
       /\ xxScale'[1].range # xScale'.domain
    ]_vars

\* a cached view was redrawn by a reuse while the visible range had moved on
C3_Witness ==
  /\ lastOp.op = "xZoom"
  /\ lastOp.decision = "reuse"
  /\ "_draw" \in lastOp.calls
  /\ cache # None
  /\ xxScale[1].range # xScale.domain

\* with a cached view, the domain of xxScale is [0, view.length]
DomainMatchesCache ==
  cache # None => xxScale # None /\ xxScale[1].domain = <<0, Len(cache[1])>>

\* a step that called setDownSample left exactly the view passed to it in the
\* cache and rebuilt xxScale from that view and the visible time range
StoreReplaces ==
  "setDownSample" \in lastOp'.calls =>
    /\ cache' = lastOp'.stored
    /\ xxScale' = Some([domain |-> <<0, Len(lastOp'.stored[1])>>,
                        range |-> xScale.domain])

\* C4: every store replaces the cached view by the new view and rebuilds
\* xxScale with domain [0, view.length] and the visible time range as range;
\* whenever a view is cached the upper bound of the domain is its length.
C4_StoreReplacesAndRebuilds == []DomainMatchesCache /\ [][StoreReplaces]_vars

\* a view of three pixels is cached for a time range other than the initial
C4_Witness ==
  /\ cache # None
  /\ lastOp.stored = cache
  /\ Len(cache[1]) = 3
  /\ xxScale[1].range # <<0, 1>>

\* what the inline backend computes from the inputs of a plan
InlineView(plan) ==
  MinMax(data, plan.extractAtTimes, plan.sampleRate, plan.windowSize,
         plan.defaultValue)

C6_OneEntryPerInstant ==
  cache # None => Len(cache[1]) = Len(cachePlan[1].extractAtTimes)

\* a view of three entries whose first window lies before the buffer start
C6_Witness ==
  /\ cache # None
  /\ Len(cache[1]) = 3
  /\ cachePlan[1].extractAtTimes[1].n < 0
  /\ cache[1][1] = <<cachePlan[1].defaultValue, cachePlan[1].defaultValue>>
  /\ cache[1][3] # cache[1][1]

\* the 0-based sample index round(t * sampleRate) of an instant
IndexOf(t, sr) == Round(t.n * sr, t.d)

\* the valid buffer indices of the window [i, i + windowSize)
ValidIndices(buffer, i, ws) ==
  {j \in 0..(Len(buffer) - 1) : i <= j /\ j * ws.d < i * ws.d + ws.n}

Least(S) == CHOOSE x \in S : \A y \in S : x <= y
Greatest(S) == CHOOSE x \in S : \A y \in S : x >= y

\* C7: an entry is the default pair when its window holds no valid buffer
\* index, and the minimum and maximum of the valid samples of the window
\* when it holds at least one.
C7_DefaultExactlyWhenEmpty ==
  cache # None =>
    \A k \in 1..Len(cachePlan[1].extractAtTimes) :
      LET plan == cachePlan[1]
          valid == ValidIndices(data,
                                IndexOf(plan.extractAtTimes[k], plan.sampleRate),
                                plan.windowSize)
          samples == {data[j + 1] : j \in valid}
      IN /\ k <= Len(cache[1])
         /\ IF valid = {}
              THEN cache[1][k] = <<plan.defaultValue, plan.defaultValue>>
              ELSE cache[1][k] = <<Least(samples), Greatest(samples)>>

\* a view with an entry taken at the last valid index, whose window runs past
\* the end of the buffer, and a default entry taken at the first invalid index
C7_Witness ==
  /\ cache # None
  /\ Len(data) > 0
  /\ cachePlan[1].windowSize.n > cachePlan[1].windowSize.d
  /\ \E k \in 1..Len(cache[1]) :
       /\ IndexOf(cachePlan[1].extractAtTimes[k], sampleRate) = Len(data) - 1
       /\ cache[1][k] = <<data[Len(data)], data[Len(data)]>>
       /\ cache[1][k][1] # cachePlan[1].defaultValue
  /\ \E k \in 1..Len(cache[1]) :
       /\ IndexOf(cachePlan[1].extractAtTimes[k], sampleRate) = Len(data)
       /\ cache[1][k] = <<cachePlan[1].defaultValue, cachePlan[1].defaultValue>>

\* the step hands the response with the unknown command to resamplerResponse
UnknownArrives ==
  /\ lastOp'.op = "resamplerResponse"
  /\ BagIn(UnknownResponse, fromWorker)
  /\ ~BagIn(UnknownResponse, fromWorker')

\* C8: a response whose command is not 'downSample' makes resamplerResponse
\* throw and is not applied: the cache and xxScale are left as they were.
C8_UnknownCommandThrows ==
  [][UnknownArrives =>
       /\ lastOp'.threw
       /\ "setDownSample" \notin lastOp'.calls
       /\ UNCHANGED <<cache, xxScale, cachePlan, applied>>
    ]_vars

\* resamplerResponse has thrown while a view was cached
C8_Witness ==
  /\ lastOp.op = "resamplerResponse"
  /\ lastOp.threw
  /\ cache # None
  /\ xxScale[1].domain = <<0, Len(cache[1])>>

C10_DispatchIdsStrictlyIncreasing == StrictlyIncreasing(dispatched)

\* C11: the backend is the one set up at onload for every recompute: a
\* recompute posts a request only to a worker that initWorker created, and
\* reduces inline only a buffer that was never transferred to a worker.
C11_BackendFixedAtConstruction ==
  /\ "postMessage" \in lastOp.calls => ResamplerCreated
  /\ "minMax" \in lastOp.calls => ~ResamplerCreated /\ ~dataDetached

\* C12: currentZoomFactor and currentDragDeltaX change only in an xZoom that
\* decides to recompute, which sets them to the factor and the drag of its
\* event; every other step leaves them alone; and an event is recomputed
\* exactly when its distance from these values, the ones of the last
\* recomputed event, reaches a threshold, whatever was reused in between.
C12_CurrentValuesFollowRecompute ==
  [][LET recomputes == lastOp'.op = "xZoom" /\ lastOp'.decision = "recompute"
     IN /\ recomputes => /\ currentZoomFactor' = lastOp'.factor
                          /\ currentDragDeltaX' = lastOp'.deltaX
        /\ ~recomputes => UNCHANGED <<currentZoomFactor, currentDragDeltaX>>
        /\ lastOp'.op = "xZoom" =>
             (recomputes <=> ~BelowThresholds(lastOp'.factor, lastOp'.deltaX))
    ]_vars

\* an event at factor 1.05 was recomputed and its values are the current ones
C12_Witness ==
  /\ lastOp.op = "xZoom"
  /\ lastOp.decision = "recompute"
  /\ lastOp.factor = 105
  /\ currentZoomFactor = 105
  /\ currentDragDeltaX = lastOp.deltaX
  /\ cache # None

\* C13: a recompute takes one instant per pixel column 0..width-1, in pixel
\* order, so a view is as long as the pixel width it was computed at; and a
\* view is drawn only while its length is the current pixel width.
C13_ViewLengthIsPixelWidth ==
  /\ "downSample" \in lastOp.calls /\ cache # None =>
       /\ Len(cache[1]) = Width(xScale)
       /\ \A p \in 1..Width(xScale) :
            cachePlan[1].extractAtTimes[p] = Invert(xScale, p - 1)
  /\ "_draw" \in lastOp.calls /\ cache # None =>
       Len(cache[1]) = Width(xScale)

\* two requests with different identifiers were posted, nothing was applied,
\* and the only response left is the one of the earlier request
LaterResponseLost ==
  /\ useWorker
  /\ Len(dispatched) = 2
  /\ dispatched[1] < dispatched[2]
  /\ applied = <<>>
  /\ \A i \in 1..Len(toWorker) : toWorker[i].cmd # "downSample"
  /\ \E msg \in BagToSet(fromWorker) :
       /\ msg.cmd = "downSample"
       /\ msg.time = dispatched[1]
       /\ CopiesIn(msg, fromWorker) = 1
       /\ \A other \in BagToSet(fromWorker) :
            other.cmd = "downSample" => other = msg

\* C14 as stated: with two requests in flight and the response of the later
\* one lost, the response of the earlier one is dropped on arrival: nothing
\* is applied and the cache stays on the view it had.
C14_EarlierResponseDropped ==
  [][LaterResponseLost => UNCHANGED <<cache, applied>>]_vars

\* C14: with two requests in flight and the response of the later one lost,
\* the response of the earlier one is applied when it arrives: its view
\* becomes the cached view.
C14_EarlierResponseApplied ==
  [][LaterResponseLost /\ lastOp'.op = "resamplerResponse" /\ ~lastOp'.threw =>
       /\ applied' = <<dispatched[1]>>
       /\ cache' # None
       /\ cache' = lastOp'.stored
       /\ cache'[1] = InlineView(cachePlan'[1])
    ]_vars

\* the response of the earlier request has just been applied after the
\* response of the later one was lost
C14_Witness ==
  /\ useWorker
  /\ lastOp.op = "resamplerResponse"
  /\ ~lastOp.threw
  /\ Len(dispatched) = 2
  /\ dispatched[1] < dispatched[2]
  /\ applied = <<dispatched[1]>>
  /\ cache # None
  /\ \A i \in 1..Len(toWorker) : toWorker[i].cmd # "downSample"
  /\ \A msg \in BagToSet(fromWorker) : msg.cmd # "downSample"

\* C19: whenever a view is cached, the time range of xxScale is the visible
\* time range the view's instants were taken from, also when the visible
\* range changed between the dispatch of the request and its response.
C19_IndexScaleRangeIsPlanRange ==
  cache # None => xxScale # None /\ xxScale[1].range = cachePlan[1].domain

\* C15: assigning the state calls exit on the previous state, when there is
\* one, and then enter on the new state, which becomes the current one; an
\* event is first emitted as 'event' and then handed to handleEvent of the
\* current state and of no other; with no state it is only emitted.
C15_ExitThenEnterAndDelivery ==
  [][/\ timelineOp'.op = "state" =>
          /\ state' = timelineOp'.arg
          /\ timelineOp'.calls =
               IF state = None
                 THEN <<Call("enter", state'[1], None)>>
                 ELSE <<Call("exit", state[1], None),
                        Call("enter", state'[1], None)>>
     /\ timelineOp'.op = "_handleEvent" =>
          /\ state' = state
          /\ timelineOp'.calls =
               IF state = None
                 THEN <<Call("emit", "event", timelineOp'.arg[1])>>
                 ELSE <<Call("emit", "event", timelineOp'.arg[1]),
                        Call("handleEvent", state[1], timelineOp'.arg[1])>>
    ]_vars

\* a state has just replaced another one: exit on the old, enter on the new
C15_Witness ==
  /\ timelineOp.op = "state"
  /\ Len(timelineOp.calls) = 2
  /\ timelineOp.calls[1][1] = "exit"
  /\ timelineOp.calls[1][2] # state[1]
  /\ timelineOp.calls[2] = Call("enter", state[1], None)

NoDuplicates(seq) ==
  \A i \in 1..Len(seq) : \A j \in 1..Len(seq) : i # j => seq[i] # seq[j]

\* C16: add throws for a track that is in the collection and leaves the
\* collection as it is; createTrack throws for a trackId in use and adds no
\* track and changes no id; after every step no track is in the collection
\* twice and every trackId maps to a track of the collection.
C16_TracksAndIdsConsistent ==
  [][/\ timelineOp'.op = "add" /\ timelineOp'.arg[1] \in Elements(tracks) =>
          /\ timelineOp'.threw
          /\ UNCHANGED <<tracks, trackById>>
     /\ (/\ timelineOp'.op = "createTrack"
         /\ timelineOp'.arg # None
         /\ timelineOp'.arg[1] \in DOMAIN trackById) =>
          /\ timelineOp'.threw
          /\ UNCHANGED <<tracks, trackById, trackLayers>>
     /\ NoDuplicates(tracks')
     /\ \A id \in DOMAIN trackById' : trackById'[id] \in Elements(tracks')
    ]_vars

\* add has thrown for a track of a timeline that has a track with an id
C16_Witness ==
  /\ timelineOp.op = "add"
  /\ timelineOp.threw
  /\ timelineOp.arg[1] \in Elements(tracks)
  /\ DOMAIN trackById # {}

\* C17: a mousemove calls editContext (without shift) or stretchContext
\* (with shift) on a layer, and then tracks.update with that layer, only
\* while the mouse is down and a mousedown has hit that layer since the last
\* mouseup; a mouseup sets mouseDown to false and the target and the layer
\* to null; from then until a mousedown hits a layer a mousemove edits
\* nothing.
C17_EditsOnlyBetweenHitAndUp ==
  /\ editionOp.calls # <<>> =>
       /\ editionOp.op = "onMouseMove"
       /\ mouseDown = "true"
       /\ Len(editionOp.calls) = 2
       /\ editionOp.calls[1][1] = (IF editionOp.shiftKey THEN "stretchContext"
                                                          ELSE "editContext")
       /\ editionOp.calls[1][2] \in hitSinceUp
       /\ editionOp.calls[2] = Call("update", "tracks", editionOp.calls[1][2])
  /\ editionOp.op = "onMouseUp" =>
       /\ mouseDown = "false"
       /\ currentTarget = "null"
       /\ currentLayer = "null"
  /\ hitSinceUp = {} => Falsy(mouseDown) \/ Falsy(currentLayer)

\* a mousemove with the shift key has stretched the second layer
C17_Witness ==
  /\ editionOp.op = "onMouseMove"
  /\ editionOp.shiftKey
  /\ editionOp.calls # <<>>
  /\ editionOp.calls[1][1] = "stretchContext"
  /\ editionOp.calls[1][2] = "l2"

\* C18: the breakpoints keep their left to right order, an edit that would
\* take a breakpoint beyond the x position of its previous or next sibling
\* leaves its x unchanged, and the y pixel position of an edited breakpoint
\* is within 0..layerHeight.
C18_OrderedAndInside ==
  /\ \A i \in 1..Len(breakpoints) : \A j \in 1..Len(breakpoints) :
       i < j => breakpoints[i].cx <= breakpoints[j].cx
  /\ breakpointOp.op = "edit" =>
       LET renderingContext == breakpointOp.renderingContext[1]
           datum == breakpoints[breakpointOp.index]
           previous == breakpointOp.siblings[1]
           next == breakpointOp.siblings[2]
           target == breakpointOp.x + breakpointOp.dx
       IN /\ YScale(renderingContext, datum.cy) \in 0..renderingContext.height
          /\ (\/ previous # None /\ target < previous[1]
              \/ next # None /\ target > next[1]) =>
               XScale(renderingContext, datum.cx) = breakpointOp.x

\* an array without every occurrence of the layer
Without(array, layer) == SelectSeq(array, LAMBDA l : l # layer)

\* C20: after removeLayer(layer) the layer is in no track and in no group,
\* every group holds its other layers in the order they had, and the groups
\* deleted are exactly those left empty.
C20_RemoveLayerFrame ==
  [][timelineOp'.op = "removeLayer" =>
       LET layer == timelineOp'.arg[1]
           remaining == { groupId \in DOMAIN groupedLayers :
                            Without(groupedLayers[groupId], layer) # <<>> }
       IN /\ \A track \in DOMAIN trackLayers' :
               trackLayers'[track] = Without(trackLayers[track], layer)
          /\ groupedLayers' =
               [groupId \in remaining |->
                  Without(groupedLayers[groupId], layer)]
    ]_vars

\* C21: whenever the state has a current layer, the current target is an
\* element of that layer, also after two mousedowns without a mouseup
\* between them; so an edit is never called on a layer with a target that is
\* not one of its elements.
C21_TargetBelongsToCurrentLayer ==
  /\ ~Falsy(currentLayer) => HasElement(currentLayer, currentTarget)
  /\ editionOp.calls # <<>> =>
       HasElement(editionOp.calls[1][2], editionOp.calls[1][3][3])

=============================================================================
